---- MODULE Spec2Model ----
(***************************************************************************)
(* View tracking of the nbatruths blog: the ArticleView ledger, the        *)
(* Article.view_count counter, the article detail page that records a view *)
(* (ArticleDetailView.get_object / track_article_view) and the AJAX        *)
(* endpoint increment_article_views.                                       *)
(*                                                                         *)
(* Every request is a process that runs the handler's database operations  *)
(* one at a time (the project sets no ATOMIC_REQUESTS, so each statement   *)
(* commits on its own); the steps of different requests interleave.        *)
(***************************************************************************)
EXTENDS Integers, Sequences, FiniteSets, Bags, TLC

\* ------------------------------------------------------------------ bounds
\* Requests the site receives in one behaviour of Spec and of SpecSeq.
MaxRequests == 3
\* Requests the site receives in one behaviour of SpecViews.
MaxRaceRequests == 2
\* Changes of date (in UTC or in TIME_ZONE) the clock runs through.
MaxDateChanges == 2

\* Worker slots, each handling one request at a time.
Procs == {"w1", "w2"}
\* Client addresses, as get_client_ip resolves them.
IPs == {"1.2.3.4", "5.6.7.8"}
\* request.user: None for an anonymous request, else the user.
NoUser == "None"
Users == {NoUser, "u1"}

\* Ids of the articles that exist (all of them published).
Articles == {1, 2}
\* Numbers POSTed as article_id to the AJAX endpoint: the articles and one id
\* of no article.
ArticleIds == Articles \cup {3}
\* request.POST.get('article_id'): a string that reads as a number, a string
\* that does not, or None when the field is missing.
PostedIds ==
    {[kind |-> "number", id |-> n] : n \in ArticleIds}
        \cup {[kind |-> "text", id |-> 0], [kind |-> "missing", id |-> 0]}

\* ------------------------------------------------------------------- time
\* Instants are hours since 00:00 UTC of day 0.  timezone.now() is in UTC;
\* TIME_ZONE = 'America/New_York' is UtcOffsetHours behind UTC (EST).
HoursPerDay == 24
UtcOffsetHours == 5

\* timezone.now().date(): the date of the aware UTC datetime.
UtcDate(t) == t \div HoursPerDay

\* The timestamp__date lookup: with USE_TZ the stored datetime is converted
\* to the current time zone (TIME_ZONE) and then truncated to its date.
\* Day numbers are shifted by HoursPerDay before dividing so that the
\* quotient is taken of a non-negative number.
LocalDate(t) == ((t + HoursPerDay - UtcOffsetHours) \div HoursPerDay) - 1

\* Date changes (of either date) between instant 0 and t.
DateChanges(t) == UtcDate(t) + LocalDate(t) + 1

\* The next instant at which the UTC date or the local date changes: the
\* clock is sampled once in each interval in which both dates are constant.
NextInstant(t) ==
    IF t % HoursPerDay < UtcOffsetHours
        THEN (t \div HoursPerDay) * HoursPerDay + UtcOffsetHours
        ELSE (t \div HoursPerDay + 1) * HoursPerDay

VARIABLES
    clock,       \* the current instant (timezone.now())
    view_count,  \* Article.view_count as stored, per article id
    ledger,      \* the ArticleView table: a bag of rows (the id column, the
                 \* only one that tells equal rows apart, is left out)
    req,         \* per worker: the request it handles and where it stands
    requests,    \* number of requests received so far
    articles,    \* the Article table without view_count: per article id its
                 \* status, category, related teams and players, published_at
    related,     \* the detail page rendered last: its article and its
                 \* related_articles list
    thunder_players, \* the active players of the team of the team page
    stats,       \* the PlayerStats table
    team_stats,  \* the team page rendered last: its team_stats, or the fault
    META,        \* request.META of the request whose address is resolved
    client_ip    \* what get_client_ip returned for META

\* The state the view tracking reads and writes.
tracking == <<clock, view_count, ledger, req, requests>>
\* The article store and the pages rendered from it.
content == <<articles, related>>
\* The team page and the address resolver.
pages == <<thunder_players, stats, team_stats, META, client_ip>>

vars == <<clock, view_count, ledger, req, requests, articles, related,
          thunder_players, stats, team_stats, META, client_ip>>

\* A worker with no request.
Idle ==
    [pc |-> "idle", kind |-> "none", article |-> 0, ip_address |-> "",
     user |-> NoUser, view_count |-> 0, now |-> 0, existing_view |-> FALSE,
     response |-> "none"]

\* No view recorded, no request received.
TrackingInit ==
    /\ clock = 0
    /\ view_count = [a \in Articles |-> 0]
    /\ ledger = EmptyBag
    /\ req = [s \in Procs |-> Idle]
    /\ requests = 0

\* Article.status.
Statuses == {"draft", "published", "archived"}
\* Article.category: None, or the one category.
NoCategory == "None"
Categories == {NoCategory, "c1"}
\* The NBATeam and NBAPlayer rows articles refer to.
Teams == {"t1", "t2"}
Players == {"p1"}
\* published_at of an article that has none (NULL), below every instant:
\* MySQL sorts NULL before every value, so last in descending order.
NoTime == -1

\* A published article without category, teams or players.
PlainArticle ==
    [status |-> "published", category |-> NoCategory, related_teams |-> {},
     related_players |-> {}, published_at |-> 0]

\* No detail page rendered yet.
NoRelated == [article |-> 0, list |-> << >>]

\* The store of the view tracking's articles, all published.
ContentInit ==
    /\ articles = [a \in Articles |-> PlainArticle]
    /\ related = NoRelated

\* team_stats = {}
EmptyDict == [key \in {} |-> 0]
\* No team page rendered, no address resolved.
NoStats == [fault |-> "none", rendered |-> FALSE, team_stats |-> EmptyDict]
NoMETA == [HTTP_X_FORWARDED_FOR |-> << >>, REMOTE_ADDR |-> << >>]
\* client_ip before get_client_ip has returned.
Unresolved == <<"unresolved">>

PagesInit ==
    /\ thunder_players = {}
    /\ stats = {}
    /\ team_stats = NoStats
    /\ META = NoMETA
    /\ client_ip = Unresolved

Init ==
    /\ TrackingInit
    /\ ContentInit
    /\ PagesInit

\* ----------------------------------------------------------- the database
\* The existence check with the ip_address filter left out.
ExistingViewAnyAddress(rows, article, ip_address, today) ==
    \E row \in BagToSet(rows) :
        /\ row.article = article
        /\ LocalDate(row.timestamp) = today

\* ArticleView.objects.filter(article=article, ip_address=ip_address,
\*                            timestamp__date=today).exists()
ExistingView(rows, article, ip_address, today) ==
    \E row \in BagToSet(rows) :
        /\ row.article = article
        /\ row.ip_address = ip_address
        /\ LocalDate(row.timestamp) = today

\* unique_together = ['article', 'ip_address', 'user']: the UNIQUE index the
\* table carries.  The user column is nullable and SQL NULLs are distinct
\* in a UNIQUE index, so rows of anonymous requests never conflict.
UniqueViolation(rows, article, ip_address, user) ==
    /\ user # NoUser
    /\ \E row \in BagToSet(rows) :
        /\ row.article = article
        /\ row.ip_address = ip_address
        /\ row.user = user

\* A worker is free for the next request.
Free(s) == req[s].pc \in {"idle", "done"}

\* ------------------------------------------------------ article detail page
\* ArticleDetailView.get_object: super().get_object() loads the article
\* (and with it the view_count the instance holds from then on).
GetObject(s, a, ip, u) ==
    /\ Free(s)
    /\ requests' = requests + 1
    /\ req' = [req EXCEPT ![s] =
                 [pc |-> "track", kind |-> "view", article |-> a,
                  ip_address |-> ip, user |-> u,
                  view_count |-> view_count[a], now |-> 0,
                  existing_view |-> FALSE, response |-> "none"]]
    /\ UNCHANGED <<clock, view_count, ledger>>

\* track_article_view with increment_views called outside the
\* `if not existing_view` block: a view that is found is counted again.
TrackArticleViewCounting(s) ==
    /\ req[s].pc = "track"
    /\ LET today == UtcDate(clock)
           existing == ExistingView(ledger, req[s].article,
                                    req[s].ip_address, today)
       IN  /\ req' = [req EXCEPT ![s].now = clock,
                                 ![s].existing_view = existing,
                                 ![s].pc = IF existing THEN "done" ELSE "create",
                                 ![s].response =
                                     IF existing THEN "page" ELSE "none"]
           /\ view_count' =
                 IF existing
                   THEN [view_count EXCEPT ![req[s].article] =
                             req[s].view_count + 1]
                   ELSE view_count
    /\ UNCHANGED <<clock, ledger, requests>>

\* track_article_view, the existence check: a view found for today ends the
\* request with the page served and nothing written.
TrackArticleView(s) ==
    /\ req[s].pc = "track"
    /\ LET today == UtcDate(clock)
           existing == ExistingView(ledger, req[s].article,
                                    req[s].ip_address, today)
       IN  req' = [req EXCEPT ![s].now = clock,
                              ![s].existing_view = existing,
                              ![s].pc = IF existing THEN "done" ELSE "create",
                              ![s].response =
                                  IF existing THEN "page" ELSE "none"]
    /\ UNCHANGED <<clock, view_count, ledger, requests>>

\* ArticleView.objects.create(...): the INSERT, timestamp auto_now_add.  A
\* row that breaks the UNIQUE index raises IntegrityError, which nothing
\* catches: the request ends with a server error.
CreateArticleView(s) ==
    /\ req[s].pc = "create"
    /\ IF UniqueViolation(ledger, req[s].article, req[s].ip_address,
                          req[s].user)
         THEN /\ req' = [req EXCEPT ![s].pc = "done",
                                    ![s].response = "IntegrityError"]
              /\ UNCHANGED ledger
         ELSE /\ ledger' = ledger (+) SetToBag(
                     {[article |-> req[s].article, user |-> req[s].user,
                       ip_address |-> req[s].ip_address, timestamp |-> clock]})
              /\ req' = [req EXCEPT ![s].pc = "increment"]
    /\ UNCHANGED <<clock, view_count, requests>>

\* Article.increment_views: self.view_count += 1 on the loaded instance,
\* then save(update_fields=['view_count']) writes that value.
IncrementViews(s) ==
    /\ req[s].pc = "increment"
    /\ view_count' = [view_count EXCEPT ![req[s].article] =
                          req[s].view_count + 1]
    /\ req' = [req EXCEPT ![s].view_count = req[s].view_count + 1,
                          ![s].pc = "done",
                          ![s].response = IF req[s].kind = "view"
                                              THEN "page" ELSE "json_success"]
    /\ UNCHANGED <<clock, ledger, requests>>

\* ------------------------------------------------------------ AJAX endpoint
\* increment_article_views, POST: Article.objects.get(id=article_id), with
\* Article.DoesNotExist answered by {'success': False, ...}.  The id lookup
\* converts the posted string with int(): a string that is no number raises
\* ValueError, which the handler does not catch.  get(id=None) is compiled to
\* id IS NULL and finds no row.
AjaxGet(s, article_id) ==
    /\ Free(s)
    /\ requests' = requests + 1
    /\ req' = [req EXCEPT ![s] =
                 IF article_id.kind = "text"
                   THEN [Idle EXCEPT !.pc = "done", !.kind = "ajax",
                                     !.response = "ValueError"]
                 ELSE IF article_id.kind = "number"
                         /\ article_id.id \in Articles
                   THEN [Idle EXCEPT !.pc = "increment", !.kind = "ajax",
                                     !.article = article_id.id,
                                     !.view_count = view_count[article_id.id]]
                   ELSE [Idle EXCEPT !.pc = "done", !.kind = "ajax",
                                     !.article = article_id.id,
                                     !.response = "json_not_found"]]
    /\ UNCHANGED <<clock, view_count, ledger>>

\* ------------------------------------------------------------------- clock
Tick ==
    /\ DateChanges(clock) < MaxDateChanges
    /\ clock' = NextInstant(clock)
    /\ UNCHANGED <<view_count, ledger, req, requests>>

\* ---------------------------------------------------------- specifications
\* Requests of every kind, their steps interleaved.
Next ==
    \/ \E s \in Procs, a \in Articles, ip \in IPs, u \in Users :
           requests < MaxRequests /\ GetObject(s, a, ip, u)
           /\ UNCHANGED <<content, pages>>
    \/ \E s \in Procs : TrackArticleView(s)
           /\ UNCHANGED <<content, pages>>
    \/ \E s \in Procs : CreateArticleView(s)
           /\ UNCHANGED <<content, pages>>
    \/ \E s \in Procs : IncrementViews(s)
           /\ UNCHANGED <<content, pages>>
    \/ \E s \in Procs, article_id \in PostedIds :
           requests < MaxRequests /\ AjaxGet(s, article_id)
           /\ UNCHANGED <<content, pages>>
    \/ Tick
           /\ UNCHANGED <<content, pages>>

Spec == Init /\ [][Next]_vars

\* Page views only, their steps interleaved.
NextViews ==
    \/ \E s \in Procs, a \in Articles, ip \in IPs, u \in Users :
           requests < MaxRaceRequests /\ GetObject(s, a, ip, u)
           /\ UNCHANGED <<content, pages>>
    \/ \E s \in Procs : TrackArticleView(s)
           /\ UNCHANGED <<content, pages>>
    \/ \E s \in Procs : CreateArticleView(s)
           /\ UNCHANGED <<content, pages>>
    \/ \E s \in Procs : IncrementViews(s)
           /\ UNCHANGED <<content, pages>>
    \/ Tick
           /\ UNCHANGED <<content, pages>>

SpecViews == Init /\ [][NextViews]_vars

\* Page views only, one after the other: a single worker takes them all.
SeqWorker == CHOOSE s \in Procs : TRUE

NextSeq ==
    \/ \E a \in Articles, ip \in IPs, u \in Users :
           requests < MaxRequests /\ GetObject(SeqWorker, a, ip, u)
           /\ UNCHANGED <<content, pages>>
    \/ TrackArticleView(SeqWorker)
           /\ UNCHANGED <<content, pages>>
    \/ CreateArticleView(SeqWorker)
           /\ UNCHANGED <<content, pages>>
    \/ IncrementViews(SeqWorker)
           /\ UNCHANGED <<content, pages>>
    \/ Tick
           /\ UNCHANGED <<content, pages>>

SpecSeq == Init /\ [][NextSeq]_vars

\* ------------------------------------------------- vocabulary of the claims
\* No request is in progress.
Quiescent == \A s \in Procs : Free(s)

\* Worker s has finished a page-view request.
ViewDone(s) == req[s].pc = "done" /\ req[s].kind = "view"

\* The request worker s finished was an accepted view: no view was found,
\* the row was inserted and the counter written.
Accepted(s) ==
    ViewDone(s) /\ ~req[s].existing_view /\ req[s].response = "page"

\* Two instants of one calendar day, whichever of the two clocks (UTC, or
\* the site's TIME_ZONE) draws the day's limits.
SameDay(t1, t2) ==
    UtcDate(t1) = UtcDate(t2) /\ LocalDate(t1) = LocalDate(t2)

\* Instant t1 lies on an earlier calendar day than t2 by both clocks.
EarlierDay(t1, t2) ==
    UtcDate(t1) < UtcDate(t2) /\ LocalDate(t1) < LocalDate(t2)

\* The rows of the ledger (one of each) that reference article a.
RowsOf(a) == {row \in BagToSet(ledger) : row.article = a}

\* Number of ledger entries that reference article a.
EntryCount(a) ==
    BagCardinality([row \in RowsOf(a) |-> CopiesIn(row, ledger)])

\* The rows of worker s's identity: its article, IP address and user.
OwnRows(s) ==
    {row \in RowsOf(req[s].article) :
        row.ip_address = req[s].ip_address /\ row.user = req[s].user}

\* Number of ledger entries of worker s's identity.
OwnEntryCount(s) ==
    BagCardinality([row \in OwnRows(s) |-> CopiesIn(row, ledger)])

\* ------------------------------------------------------------------ claims
\* The (identity, day) classes among the ledger entries of article a.
ViewClasses(a) ==
    {<<row.ip_address, row.user, UtcDate(row.timestamp),
       LocalDate(row.timestamp)>> : row \in RowsOf(a)}

\* C1 (as claimed; SpecSeq): idempotence of view recording.  After any
\* number of page views made one after the other, each (IP address, user,
\* calendar day) that viewed an article has exactly one ledger entry for it
\* and has raised its view_count by exactly 1: the counter equals the
\* number of such classes, however many requests each class has made.
IdempotentViewRecording ==
    Quiescent =>
        \A a \in Articles :
            /\ EntryCount(a) = Cardinality(ViewClasses(a))
            /\ view_count[a] = Cardinality(ViewClasses(a))

\* C2 (as claimed; SpecViews): race safety.  When the only two requests
\* received are page views of the same article by the same identity on the
\* same day, however their steps interleave, at most one is accepted and
\* view_count has risen by exactly 1 once both have ended.
RaceCountsOnce ==
    \A s1, s2 \in Procs :
        ( /\ s1 # s2
          /\ requests = 2
          /\ ViewDone(s1) /\ ViewDone(s2)
          /\ req[s1].article = req[s2].article
          /\ req[s1].ip_address = req[s2].ip_address
          /\ req[s1].user = req[s2].user
          /\ SameDay(req[s1].now, req[s2].now) )
        => /\ ~(Accepted(s1) /\ Accepted(s2))
           /\ view_count[req[s1].article] = 1

\* C3 (as claimed; Spec): counter/ledger agreement.  Once no request is in
\* progress, each article's view_count equals the number of ledger entries
\* that reference the article.
CounterLedgerAgreement ==
    Quiescent => \A a \in Articles : view_count[a] = EntryCount(a)

\* C4 (as claimed; SpecViews): ledger uniqueness.  The ledger never holds
\* two entries with the same article, IP address, user (None equal to
\* itself) and calendar day.
LedgerUniqueness ==
    \A r1, r2 \in BagToSet(ledger) :
        ( /\ r1.article = r2.article
          /\ r1.ip_address = r2.ip_address
          /\ r1.user = r2.user
          /\ SameDay(r1.timestamp, r2.timestamp) )
        => r1 = r2 /\ CopiesIn(r1, ledger) = 1

\* C5 (as claimed; SpecSeq): day-boundary reset.  A page view by an
\* identity, anonymous or authenticated, that has an entry for the article
\* from an earlier calendar day does not fail, and afterwards the ledger
\* holds at least two entries of that identity for the article: the
\* earlier day's and this day's.
DayBoundaryReset ==
    \A s \in Procs :
        ( /\ ViewDone(s)
          /\ \E row \in OwnRows(s) : EarlierDay(row.timestamp, req[s].now) )
        => /\ req[s].response = "page"
           /\ OwnEntryCount(s) >= 2

\* C6 (SpecSeq): per-identity isolation.  Page views made one after the
\* other.  (1) The claim's scenario: when two page views are all the site
\* has received and the second views the article of the first on the same
\* day from another IP address, the second is accepted as the first was,
\* the article has two ledger entries and its view_count is 2.  (2) After
\* any history: a request is turned away (found as already viewed, or
\* failed) only when the ledger holds an entry of its own IP address for
\* the article, never because of entries of other IP addresses; a request
\* that is accepted leaves an entry of its own identity, and the article's
\* view_count equals the number of its entries.
PerIdentityIsolation ==
    \A s \in Procs :
        ViewDone(s) =>
            /\ ( /\ requests = 2
                 /\ \E row \in RowsOf(req[s].article) :
                       /\ row.ip_address # req[s].ip_address
                       /\ SameDay(row.timestamp, req[s].now) )
               => /\ Accepted(s)
                  /\ EntryCount(req[s].article) = 2
                  /\ view_count[req[s].article] = 2
            /\ ~Accepted(s) =>
                   \E row \in RowsOf(req[s].article) :
                       row.ip_address = req[s].ip_address
            /\ Accepted(s) =>
                   /\ OwnRows(s) # {}
                   /\ view_count[req[s].article] = EntryCount(req[s].article)

\* C6, witness: the second of two views of one article on one day from two
\* IP addresses has been accepted; two entries, view_count 2.
TwoAddressesCounted ==
    \E s \in Procs, r1, r2 \in BagToSet(ledger) :
        /\ requests = 2
        /\ Accepted(s)
        /\ r1.article = req[s].article /\ r2.article = req[s].article
        /\ r1.ip_address # r2.ip_address
        /\ SameDay(r1.timestamp, r2.timestamp)
        /\ EntryCount(req[s].article) = 2
        /\ view_count[req[s].article] = 2

\* C7 (as claimed; SpecSeq): the user is part of the dedup key.  A page
\* view that is served leaves the ledger with an entry of the request's own
\* identity (article, IP address and user): an anonymous view and a view by
\* user u from the same IP address each have their entry, in either order.
UserInDedupKey ==
    \A s \in Procs :
        (ViewDone(s) /\ req[s].response = "page") => OwnRows(s) # {}

\* C8 (as claimed; Spec): single mutation path of the counter.  Every step
\* that changes an article's view_count raises it by 1 and is the counter
\* write of a page-view request that has just inserted a ledger entry for
\* that article.
SingleMutationPath ==
    [][\A a \in Articles :
          view_count'[a] # view_count[a] =>
              /\ view_count'[a] = view_count[a] + 1
              /\ \E s \in Procs :
                    /\ req[s].kind = "view"
                    /\ req[s].pc = "increment"
                    /\ req[s].article = a
                    /\ req'[s].pc = "done"]_vars

\* C9 (as claimed; Spec): a duplicate-key conflict is a silent no-op.  Every
\* page-view request ends with the article page served; none ends with the
\* IntegrityError of the ledger insert.
ConflictIsSilent ==
    \A s \in Procs : ViewDone(s) => req[s].response = "page"

\* C10 (SpecViews): a rejected view changes nothing.  The step in which a
\* page-view request makes its existence check and finds a view of its
\* article and IP address for today writes no ledger entry, leaves every
\* article's view_count and every ledger entry as they are, and ends the
\* request with the page served.
RejectedViewChangesNothing ==
    [][\A s \in Procs :
          ( /\ req[s].pc = "track"
            /\ req'[s] # req[s]
            /\ ExistingView(ledger, req[s].article, req[s].ip_address,
                            UtcDate(clock)) )
          => /\ ledger' = ledger
             /\ view_count' = view_count
             /\ req'[s].pc = "done"
             /\ req'[s].response = "page"]_vars

\* C10, witness: a request has been rejected for a view that is recorded
\* and counted.
ViewRejected ==
    \E s \in Procs :
        /\ ViewDone(s)
        /\ req[s].existing_view
        /\ EntryCount(req[s].article) = 1
        /\ view_count[req[s].article] = 1

\* C11 (Spec): view_count never decreases.  Whatever the interleaving of
\* page-view requests and AJAX increment requests, no step lowers the stored
\* view_count of an article: each persisted write leaves it at least as large
\* as the write before.
ViewCountMonotonic ==
    [][\A a \in Articles : view_count'[a] >= view_count[a]]_vars

\* ---------------------------------------------------------- related content
\* ArticleDetailView.get_context_data computes related_articles for the
\* article of the page.  The query reads the article store only; the view
\* tracking of the same page (get_object, above) reads and writes none of
\* it, so the two parts of the page are modelled by separate actions.

\* Articles in the store of the related-content specification, ids 1..n.
NumArticles == 6
StoredArticles == 1 .. NumArticles
\* [:4]
RelatedLimit == 4

\* Rows an article of the store is drawn from.  An article that is not
\* published is taken as never published (no published_at): the query does
\* not read the published_at of such an article.
ArticleRows ==
    { r \in [status : Statuses, category : Categories,
             related_teams : SUBSET Teams, related_players : SUBSET Players,
             published_at : {NoTime, 0}] :
        r.status # "published" => r.published_at = NoTime }

\* A row of the LEFT OUTER JOIN with a many-to-many table: one row for each
\* link of the article, one with NULL when it has none.
NoLink == "NULL"
JoinLinks(links) == IF links = {} THEN {NoLink} ELSE links

\* A filter that lets every status through.
AnyStatus(store, b) == TRUE

\* filter(status='published')
IsPublished(store, b) == store[b].status = "published"

\* The three Q objects joined by |, on one row of the join of article b.
\* Q(category=None) is compiled to category_id IS NULL, which is true of
\* every article without category.
MatchesQ(store, a, b, t, p) ==
    \/ store[b].category = store[a].category
    \/ t \in store[a].related_teams
    \/ p \in store[a].related_players

\* The rows the query selects before DISTINCT: <<article id, team, player>>.
JoinRows(store, a) ==
    { row \in (DOMAIN store) \X (Teams \cup {NoLink})
                              \X (Players \cup {NoLink}) :
        /\ row[2] \in JoinLinks(store[row[1]].related_teams)
        /\ row[3] \in JoinLinks(store[row[1]].related_players)
        /\ IsPublished(store, row[1])
        /\ MatchesQ(store, a, row[1], row[2], row[3])
        /\ row[1] # a }

\* Meta.ordering = ['-published_at', '-created_at']: article b comes before
\* article c.  Ids are given in the order of creation, so -created_at is the
\* descending order of ids.
Precedes(store, b, c) ==
    \/ store[b].published_at > store[c].published_at
    \/ store[b].published_at = store[c].published_at /\ b > c

\* The selected rows in the order of Meta.ordering, as article ids.
RECURSIVE OrderBy(_, _)
OrderBy(store, rows) ==
    IF rows = {} THEN << >>
    ELSE LET first == CHOOSE r \in rows :
                          \A q \in rows : ~Precedes(store, q[1], r[1])
         IN  <<first[1]>> \o OrderBy(store, rows \ {first})

\* The selected rows with their repetitions kept.
KeepDuplicates(ids) == ids

\* .distinct(): each article once, at its first place.
RECURSIVE Distinct(_)
Distinct(ids) ==
    IF ids = << >> THEN << >>
    ELSE <<Head(ids)>> \o
         SelectSeq(Distinct(Tail(ids)), LAMBDA b : b # Head(ids))

\* [:n]
Limit(ids, n) == SubSeq(ids, 1, IF Len(ids) < n THEN Len(ids) ELSE n)

\* related_articles of the detail page of article a.
RelatedArticles(store, a) ==
    Limit(Distinct(OrderBy(store, JoinRows(store, a))), RelatedLimit)

\* The detail page of a published article is rendered (get_queryset serves
\* published articles only).
RenderDetail(a) ==
    /\ articles[a].status = "published"
    /\ related' = [article |-> a, list |-> RelatedArticles(articles, a)]
    /\ UNCHANGED <<tracking, articles, pages>>

\* The store holds articles of at most two kinds: article 1 is of the first
\* kind, every other article of either.
RelatedInit ==
    /\ TrackingInit
    /\ PagesInit
    /\ related = NoRelated
    /\ \E k1 \in ArticleRows, k2 \in ArticleRows,
          kind \in [StoredArticles \ {1} -> {1, 2}] :
           articles = [b \in StoredArticles |->
                          IF b = 1 \/ kind[b] = 1 THEN k1 ELSE k2]

\* One detail page is rendered from the store.
NextRelated ==
    \E a \in StoredArticles : related = NoRelated /\ RenderDetail(a)

SpecRelated == RelatedInit /\ [][NextRelated]_vars

\* A detail page has been rendered.
Rendered == related.article # 0

\* The articles of the related_articles list.
Listed == { related.list[i] : i \in DOMAIN related.list }

\* Article b has the category article a has (an article without category
\* has none to have in common).
SameCategory(a, b) ==
    /\ articles[a].category # NoCategory
    /\ articles[b].category = articles[a].category

SharedTeams(a, b) == articles[a].related_teams \cap articles[b].related_teams
SharedPlayers(a, b) ==
    articles[a].related_players \cap articles[b].related_players

\* The candidates for article a: the other published articles that have its
\* category or share a team or a player with it.
Candidates(a) ==
    { b \in (DOMAIN articles) \ {a} :
        /\ articles[b].status = "published"
        /\ \/ SameCategory(a, b)
           \/ SharedTeams(a, b) # {}
           \/ SharedPlayers(a, b) # {} }

\* C12 (SpecRelated): related-content exclusion.  Whatever the store holds,
\* the related-articles list of a published article's detail page contains
\* neither that article itself nor an article that is not published (draft
\* or archived).
RelatedExclusion ==
    Rendered =>
        \A b \in Listed :
            /\ b # related.article
            /\ articles[b].status = "published"

\* C12, witness: a page with related articles has been rendered from a store
\* that holds an unpublished article sharing a team with the page's article
\* and a published article equal to the page's article in every field.
RelatedExcluding ==
    /\ Rendered
    /\ Listed # {}
    /\ \E b \in DOMAIN articles :
           /\ articles[b].status # "published"
           /\ SharedTeams(related.article, b) # {}
    /\ \E b \in (DOMAIN articles) \ {related.article} :
           articles[b] = articles[related.article]

\* C13 (SpecRelated): related-content union.  The articles listed are
\* candidates (other published articles with the same category, a shared
\* team or a shared player), and when there are at most 4 candidates every
\* candidate is listed, the one that shares only a player included.
RelatedUnion ==
    Rendered =>
        /\ Listed \subseteq Candidates(related.article)
        /\ Cardinality(Candidates(related.article)) <= RelatedLimit
               => Listed = Candidates(related.article)

\* C14 (SpecRelated): related-content empty case.  The related-articles list
\* of an article without category, related teams and related players is
\* empty, whatever else the store holds.
RelatedEmptyCase ==
    ( /\ Rendered
      /\ articles[related.article].category = NoCategory
      /\ articles[related.article].related_teams = {}
      /\ articles[related.article].related_players = {} )
    => related.list = << >>

\* C15 (SpecRelated): related-content deduplication and bound.  The
\* related-articles list holds no article twice and has at most 4 entries.
RelatedDistinctBounded ==
    /\ Len(related.list) <= RelatedLimit
    /\ \A i \in DOMAIN related.list, j \in DOMAIN related.list :
           i # j => related.list[i] # related.list[j]

\* C15, witness: there are more than 4 candidates, 4 are listed, and one of
\* the listed has the category of the page's article and shares two teams
\* with it (it matches on two rows of the join).
RelatedTruncated ==
    /\ Rendered
    /\ Cardinality(Candidates(related.article)) > RelatedLimit
    /\ Len(related.list) = RelatedLimit
    /\ \E b \in Listed :
           /\ SameCategory(related.article, b)
           /\ Cardinality(SharedTeams(related.article, b)) >= 2

\* ------------------------------------------------------ editorial operations
\* A new article: status default 'draft', published_at NULL.
DraftArticle ==
    [status |-> "draft", category |-> NoCategory, related_teams |-> {},
     related_players |-> {}, published_at |-> NoTime]

\* Article.save of an article whose status the editor has set (the admin
\* change form, ArticleAdmin.save_model): published_at is set to
\* timezone.now() when the status is 'published' and published_at is empty.
Save(a, status) ==
    /\ articles' = [articles EXCEPT
                       ![a].status = status,
                       ![a].published_at =
                           IF status = "published" /\ @ = NoTime
                               THEN clock ELSE @]
    /\ UNCHANGED <<tracking, related, pages>>

\* ArticleAdmin.make_published: queryset.update(status='published'), one
\* UPDATE statement; Article.save is not called.
MakePublished(queryset) ==
    /\ articles' = [a \in DOMAIN articles |->
                       IF a \in queryset
                           THEN [articles[a] EXCEPT !.status = "published"]
                           ELSE articles[a]]
    /\ UNCHANGED <<tracking, related, pages>>

\* ArticleAdmin.make_draft: queryset.update(status='draft').
MakeDraft(queryset) ==
    /\ articles' = [a \in DOMAIN articles |->
                       IF a \in queryset
                           THEN [articles[a] EXCEPT !.status = "draft"]
                           ELSE articles[a]]
    /\ UNCHANGED <<tracking, related, pages>>

\* The articles are new drafts.
EditInit ==
    /\ TrackingInit
    /\ PagesInit
    /\ related = NoRelated
    /\ articles = [a \in Articles |-> DraftArticle]

NextEdit ==
    \/ \E a \in Articles, status \in Statuses : Save(a, status)
    \/ \E queryset \in (SUBSET Articles) \ {{}} : MakePublished(queryset)
    \/ \E queryset \in (SUBSET Articles) \ {{}} : MakeDraft(queryset)
    \/ Tick /\ UNCHANGED <<content, pages>>

SpecEdit == EditInit /\ [][NextEdit]_vars

\* C16 (SpecEdit): published_at is set once.  After any sequence of
\* Article.save, make_published and make_draft an article whose status is
\* 'published' has a published_at, and a published_at once set is never
\* changed by a later operation.
PublishedAtSetOnce ==
    /\ [](\A a \in Articles :
              articles[a].status = "published"
                  => articles[a].published_at # NoTime)
    /\ [][\A a \in Articles :
              articles[a].published_at # NoTime
                  => articles'[a].published_at = articles[a].published_at]_vars

\* Worker s has finished an AJAX increment request.
AjaxDone(s) == req[s].pc = "done" /\ req[s].kind = "ajax"

\* C17 (Spec): not-found is a structured failure.  A POST to the AJAX
\* endpoint with an article_id of no article (unknown, missing or not a
\* number) is answered {success: false, ...}, with no unhandled fault and
\* with every view_count and the ledger unchanged; a POST with the id of an
\* article is answered {success: true, views: N}, N being the view_count the
\* request stored.
AjaxStructuredResult ==
    /\ [](\A s \in Procs :
              AjaxDone(s) =>
                  req[s].response \in {"json_not_found", "json_success"})
    /\ [][\A s \in Procs :
              (Free(s) /\ req'[s].kind = "ajax"
                       /\ req'[s].article \notin Articles)
                  => /\ req'[s].response = "json_not_found"
                     /\ view_count' = view_count
                     /\ ledger' = ledger]_vars
    /\ [][\A s \in Procs :
              (req[s].kind = "ajax" /\ req[s].pc = "increment"
                                    /\ req'[s].pc = "done")
                  => /\ req'[s].response = "json_success"
                     /\ req'[s].view_count = view_count'[req[s].article]]_vars

\* --------------------------------------------------------------- team page
\* ThunderView.get_context_data, the team stats summary.  thunder_players
\* are the NBAPlayer rows of the team; the other players of NBAPlayers are
\* on another team.
NBAPlayers == {"p1", "p2"}
\* PlayerStats.season, a string: its characters, as digits.
Seasons == {<<9>>, <<1, 0>>}
\* The per-game values of a PlayerStats row.
PerGame ==
    {[points_per_game |-> 20, rebounds_per_game |-> 6, assists_per_game |-> 4],
     [points_per_game |-> 10, rebounds_per_game |-> 2, assists_per_game |-> 2]}

\* The PlayerStats tables: unique_together = ['player', 'season'].
StatsRows == [player : NBAPlayers, season : Seasons, per_game : PerGame]
StatsTables ==
    { rows \in SUBSET StatsRows :
        \A r1 \in rows, r2 \in rows :
            (r1.player = r2.player /\ r1.season = r2.season) => r1 = r2 }

\* The order of two strings: character by character, a prefix first.
RECURSIVE StringLess(_, _)
StringLess(x, y) ==
    IF y = << >> THEN FALSE
    ELSE IF x = << >> THEN TRUE
    ELSE \/ Head(x) < Head(y)
         \/ Head(x) = Head(y) /\ StringLess(Tail(x), Tail(y))

\* PlayerStats.objects.filter(player__team=thunder_team)
TeamRows(rows, players) == { r \in rows : r.player \in players }

\* first() of no row: None.  (The empty string, as false as None in
\* "if latest_season", is not among Seasons.)
NoSeason == << >>

\* The first season of all the table's rows, whatever the player's team.
LatestSeasonOfAll(rows, players) ==
    LET seasons == { r.season : r \in rows }
    IN  IF seasons = {} THEN NoSeason
        ELSE CHOOSE x \in seasons : \A y \in seasons : ~StringLess(x, y)

\* ...filter(player__team=thunder_team).values_list('season',
\* flat=True).first(): the first season in Meta.ordering = ['-season'].
LatestSeason(rows, players) ==
    LET seasons == { r.season : r \in TeamRows(rows, players) }
    IN  IF seasons = {} THEN NoSeason
        ELSE CHOOSE x \in seasons : \A y \in seasons : ~StringLess(x, y)

\* season_stats
SeasonStats(rows, players) ==
    { r \in TeamRows(rows, players) : r.season = LatestSeason(rows, players) }

\* The team stats summary.  The dict of the three averages is built from
\* models.Avg(...), and views.py binds no name "models" (it imports names
\* from django.db.models and from .models, never the modules themselves):
\* evaluating the first entry raises NameError, before any query is run.
TeamStats(rows, players) ==
    IF players = {}
        THEN [fault |-> "none", rendered |-> TRUE, team_stats |-> EmptyDict]
    ELSE IF LatestSeason(rows, players) = NoSeason
        THEN [fault |-> "none", rendered |-> TRUE, team_stats |-> EmptyDict]
    ELSE [fault |-> "NameError", rendered |-> TRUE, team_stats |-> EmptyDict]

\* The team page is rendered.
RenderThunder ==
    /\ team_stats = NoStats
    /\ team_stats' = TeamStats(stats, thunder_players)
    /\ UNCHANGED <<tracking, content, thunder_players, stats, META, client_ip>>

\* Any players of the team, any PlayerStats table.
StatsInit ==
    /\ TrackingInit
    /\ ContentInit
    /\ thunder_players \in SUBSET NBAPlayers
    /\ stats \in StatsTables
    /\ team_stats = NoStats
    /\ META = NoMETA
    /\ client_ip = Unresolved

NextStats == RenderThunder

SpecStats == StatsInit /\ [][NextStats]_vars

\* C18 (SpecStats): empty aggregation.  The summary of a team without any
\* PlayerStats record (no players, or players without stats) is computed
\* without error and holds none of the three averages: they are absent, not
\* 0.
EmptyAggregation ==
    (team_stats.rendered /\ TeamRows(stats, thunder_players) = {})
        => /\ team_stats.fault = "none"
           /\ DOMAIN team_stats.team_stats = {}

\* C18, witness: the page has been rendered for a team that has players but
\* no stats, while players of another team have stats.
EmptyAggregationRendered ==
    /\ team_stats.rendered
    /\ thunder_players # {}
    /\ TeamRows(stats, thunder_players) = {}
    /\ stats # {}

\* The sum of a per-game value over a set of rows.
RECURSIVE SumOf(_, _)
SumOf(rows, value) ==
    IF rows = {} THEN 0
    ELSE LET r == CHOOSE x \in rows : TRUE
         IN  r.per_game[value] + SumOf(rows \ {r}, value)

\* avg is the arithmetic mean of the value over the rows.
IsMean(avg, rows, value) == avg * Cardinality(rows) = SumOf(rows, value)

\* C19 (SpecStats): aggregation result.  The summary of a team with at least
\* one PlayerStats record is computed without fault and gives avg_points,
\* avg_rebounds and avg_assists, each the arithmetic mean of the per-game
\* value over the records of the team's players in the first season in
\* descending order of the season strings.
AggregationResult ==
    (team_stats.rendered /\ TeamRows(stats, thunder_players) # {})
        => /\ team_stats.fault = "none"
           /\ DOMAIN team_stats.team_stats =
                  {"avg_points", "avg_rebounds", "avg_assists"}
           /\ IsMean(team_stats.team_stats["avg_points"],
                     SeasonStats(stats, thunder_players), "points_per_game")
           /\ IsMean(team_stats.team_stats["avg_rebounds"],
                     SeasonStats(stats, thunder_players), "rebounds_per_game")
           /\ IsMean(team_stats.team_stats["avg_assists"],
                     SeasonStats(stats, thunder_players), "assists_per_game")

\* -------------------------------------------------------- address resolver
\* ArticleDetailView.get_client_ip.  Strings are sequences of characters.
MaxHeaderLen == 3
Chars == {"1", ",", " "}

\* The strings of at most n characters.
Strings(n) == UNION { [1 .. k -> Chars] : k \in 0 .. n }

\* META.get('HTTP_X_FORWARDED_FOR') of a request without the header: None.
NoHeader == <<"None">>
\* REMOTE_ADDR, the address of the connection.
RemoteAddrs == {<<"1", "1">>, <<"1">>}

\* request.META of the requests.
METAs ==
    [HTTP_X_FORWARDED_FOR : Strings(MaxHeaderLen) \cup {NoHeader},
     REMOTE_ADDR : RemoteAddrs]

\* str.split(',')[0]: the characters before the first comma.
RECURSIVE FirstEntry(_)
FirstEntry(str) ==
    IF str = << >> \/ Head(str) = "," THEN << >>
    ELSE <<Head(str)>> \o FirstEntry(Tail(str))

\* get_client_ip: "if x_forwarded_for" is false of None and of ''.
GetClientIp(meta) ==
    IF meta.HTTP_X_FORWARDED_FOR # NoHeader
           /\ meta.HTTP_X_FORWARDED_FOR # << >>
        THEN FirstEntry(meta.HTTP_X_FORWARDED_FOR)
        ELSE meta.REMOTE_ADDR

\* The address of the request is resolved.
ResolveClientIp ==
    /\ client_ip = Unresolved
    /\ client_ip' = GetClientIp(META)
    /\ UNCHANGED <<tracking, content, thunder_players, stats, team_stats, META>>

\* Any header map.
ResolverInit ==
    /\ TrackingInit
    /\ ContentInit
    /\ thunder_players = {}
    /\ stats = {}
    /\ team_stats = NoStats
    /\ META \in METAs
    /\ client_ip = Unresolved

NextResolver == ResolveClientIp

SpecResolver == ResolverInit /\ [][NextResolver]_vars

\* str.strip(): the string without its leading and trailing spaces.
RECURSIVE LeftStrip(_)
LeftStrip(str) ==
    IF str # << >> /\ Head(str) = " " THEN LeftStrip(Tail(str)) ELSE str

RECURSIVE RightStrip(_)
RightStrip(str) ==
    IF str # << >> /\ str[Len(str)] = " "
        THEN RightStrip(SubSeq(str, 1, Len(str) - 1)) ELSE str

Strip(str) == RightStrip(LeftStrip(str))

\* C20 (SpecResolver): identity resolution.  The resolved IP is the first
\* comma-separated entry of the forwarded-for header without its surrounding
\* whitespace when the header is present and not empty, and the address of
\* the connection otherwise; it is a function of the header map and that
\* address, and resolving it changes no other state.
IdentityResolution ==
    /\ [](client_ip # Unresolved =>
              client_ip =
                  IF META.HTTP_X_FORWARDED_FOR \notin {NoHeader, << >>}
                      THEN Strip(FirstEntry(META.HTTP_X_FORWARDED_FOR))
                      ELSE META.REMOTE_ADDR)
    /\ [][client_ip' # client_ip =>
              UNCHANGED <<tracking, content, thunder_players, stats,
                          team_stats, META>>]_vars

\* C21 (SpecViews): no lost update of the counter.  When every worker has
\* handled one page view of the same article, the views came from pairwise
\* distinct IP addresses, all were accepted and no other request was
\* received, the article's view_count, 0 at the start, is the number of
\* those views, however their steps interleaved.
NoLostUpdate ==
    \A a \in Articles :
        ( /\ requests = Cardinality(Procs)
          /\ \A s \in Procs : Accepted(s) /\ req[s].article = a
          /\ \A s1 \in Procs, s2 \in Procs :
                 s1 # s2 => req[s1].ip_address # req[s2].ip_address )
        => view_count[a] = Cardinality(Procs)

\* C22 (SpecSeq): the existence check and the stored entry agree on the
\* day.  The day timezone.now().date() gives for an instant is the day the
\* timestamp__date lookup gives a timestamp of that instant, so every ledger
\* entry lies on one day by both; and the existence check of a page view
\* finds every entry of its article and IP address that was written earlier
\* on the same calendar day.
CheckAndEntryAgreeOnDay ==
    /\ [](\A row \in BagToSet(ledger) :
              UtcDate(row.timestamp) = LocalDate(row.timestamp))
    /\ [][\A s \in Procs :
              (req[s].pc = "track" /\ req'[s].pc # "track")
                  => \A row \in RowsOf(req[s].article) :
                         ( /\ row.ip_address = req[s].ip_address
                           /\ SameDay(row.timestamp, clock) )
                         => req'[s].existing_view]_vars

====
